---- MODULE Spec2Model ----
(***************************************************************************)
(* A model of the aescbc package: the PKCS7 padding codec, the streaming   *)
(* AES-CBC encryptor and decryptor (Write / Read / Close) and their Copy   *)
(* drivers.  Byte slices are modelled with Go's sharing semantics where    *)
(* the code lets a stream's slice share memory with its caller's buffer.   *)
(***************************************************************************)
EXTENDS Integers, Sequences, FiniteSets, TLC

VARIABLES
    plain,      \* the payload the harness works on (content of the source)
    enc,        \* the AESCBCEncryptor struct
    dec,        \* the AESCBCDecryptor struct
    encBuf,     \* the caller's byte array whose slices are passed to enc
    decBuf,     \* the caller's byte array whose slices are passed to dec
    written,    \* bytes of plain handed to enc.Write / read from the source
    ct,         \* bytes obtained from enc.Read (the ciphertext sink)
    fed,        \* bytes of ct handed to dec.Write / read from the source
    pt,         \* bytes obtained from dec.Read (the plaintext sink)
    ret,        \* what the last call returned
    hist,       \* history: Writes accepted by enc (0, 1, 2 = more), Closes that
                \* succeeded, short reads the source has made
    pc,         \* position of the Copy drivers
    padStage,   \* position of the padding codec harness
    padIn,      \* data given to Pkcs7Pad
    padBuf,     \* the padded (possibly tampered) buffer
    padOut      \* what Pkcs7Unpad returned

vars == <<plain, enc, dec, encBuf, decBuf, written, ct, fed, pt, ret, hist, pc,
          padStage, padIn, padBuf, padOut>>

streamVars == <<plain, enc, dec, encBuf, decBuf, written, ct, fed, pt, ret, hist, pc>>

padVars == <<padStage, padIn, padBuf, padOut>>

(***************************************************************************)
(* Program constants and model bounds                                      *)
(***************************************************************************)
BlockSize == 16

BytesToRetain == 16

AESKeyLen == 32

DefaultCopyBufferSize == 5242880

MaxPadLen == 48

Byte == 0..255

ErrNil == "nil"

ErrClosed == "writer has been closed"

ErrPadding == "invalid padding"

ErrInsufficient == "not enough bytes in read buffer to strip PKCS7 padding"

ErrEOF == "EOF"

ErrPanic == "panic: slice bounds out of range"

\* an error, other than EOF, returned by the source's Read or the sink's Write
ErrIO == "i/o failure"

(***************************************************************************)
(* Byte slices.  A slice is either a view of the caller's array (offset,   *)
(* length, capacity) or owns its bytes.  Arrays the stream allocated       *)
(* itself are never reachable from the caller, so a slice of one is        *)
(* modelled by its contents.                                               *)
(***************************************************************************)
Own(data) == [view |-> FALSE, data |-> data, off |-> 0, len |-> 0, cap |-> 0]

View(off, len, cap) == [view |-> TRUE, data |-> <<>>, off |-> off, len |-> len, cap |-> cap]

SLen(s) == IF s.view THEN s.len ELSE Len(s.data)

Contents(s, buf) == IF s.view THEN SubSeq(buf, s.off + 1, s.off + s.len) ELSE s.data

\* s[i:]
SliceFrom(s, i) ==
    IF s.view THEN View(s.off + i, s.len - i, s.cap - i)
    ELSE Own(SubSeq(s.data, i + 1, Len(s.data)))

\* s[:j]
SliceTo(s, j) ==
    IF s.view THEN View(s.off, j, s.cap)
    ELSE Own(SubSeq(s.data, 1, j))

\* copy(buf[off:], bytes)
WriteAt(buf, off, bytes) ==
    [i \in 1..Len(buf) |->
        IF i > off /\ i <= off + Len(bytes) THEN bytes[i - off] ELSE buf[i]]

\* append(s, bytes...): in place while the capacity lasts, else a new array
GoAppend(s, bytes, buf) ==
    IF ~s.view
    THEN [s |-> Own(s.data \o bytes), buf |-> buf]
    ELSE IF s.len + Len(bytes) <= s.cap
         THEN [s |-> View(s.off, s.len + Len(bytes), s.cap),
               buf |-> WriteAt(buf, s.off + s.len, bytes)]
         ELSE [s |-> Own(Contents(s, buf) \o bytes), buf |-> buf]

(***************************************************************************)
(* PKCS7 padding                                                           *)
(***************************************************************************)
RECURSIVE PadLoop(_, _, _, _)
PadLoop(i, pl, s, buf) ==
    IF i >= pl THEN [s |-> s, buf |-> buf]
    ELSE LET a == GoAppend(s, <<pl % 256>>, buf)
         IN  PadLoop(i + 1, pl, a.s, a.buf)

PadLengthNoFullBlock(inputLen, blockSize) == (blockSize - (inputLen % blockSize)) % blockSize

PadLength(inputLen, blockSize) == blockSize - (inputLen % blockSize)

Pkcs7Pad(input, blockSize, buf) ==
    PadLoop(0, PadLength(SLen(input), blockSize), input, buf)

checkPaddingIsValid(input, paddingLength) ==
    IF Len(input) < paddingLength THEN ErrPadding
    ELSE LET p == SubSeq(input, Len(input) - paddingLength + 1, Len(input))
         IN  IF \E i \in 1..Len(p) : p[i] # Len(p) THEN ErrPadding ELSE ErrNil

Pkcs7Unpad(input) ==
    IF Len(input) = 0 THEN [data |-> <<>>, err |-> ErrNil]
    ELSE LET pl  == input[Len(input)]
             err == checkPaddingIsValid(input, pl)
         IN  IF err # ErrNil THEN [data |-> <<>>, err |-> err]
             ELSE [data |-> SubSeq(input, 1, Len(input) - pl), err |-> ErrNil]

(***************************************************************************)
(* The block cipher engine (crypto/aes + crypto/cipher in CBC mode).  The  *)
(* block transform is a keyed bijection on 16-byte blocks; CBC chaining    *)
(* XORs each plaintext block with the previous ciphertext block.  The      *)
(* BlockMode value keeps its own copy of the chaining value.               *)
(***************************************************************************)
AESKey == [i \in 1..AESKeyLen |-> (37 * i + 11) % 256]

RECURSIVE XorBits(_, _, _)
XorBits(a, b, n) ==
    IF n = 0 THEN 0
    ELSE ((a + b) % 2) + 2 * XorBits(a \div 2, b \div 2, n - 1)

XorTable == [a \in Byte |-> [b \in Byte |-> XorBits(a, b, 8)]]

XorBlock(a, b) == [j \in 1..BlockSize |-> XorTable[a[j]][b[j]]]

RoundKey(key) == [j \in 1..BlockSize |-> (key[j] + key[j + BlockSize]) % 256]

AESEncryptBlock(key, b) ==
    [j \in 1..BlockSize |-> (7 * b[(j % BlockSize) + 1] + RoundKey(key)[j]) % 256]

AESDecryptBlock(key, c) ==
    [i \in 1..BlockSize |->
        LET j == ((i + BlockSize - 2) % BlockSize) + 1
        IN  (183 * ((c[j] + 256 - RoundKey(key)[j]) % 256)) % 256]

\* cipher.NewCBCEncrypter(...).CryptBlocks: src is a whole number of blocks
RECURSIVE CBCEncryptBlocks(_, _, _)
CBCEncryptBlocks(key, iv, src) ==
    IF Len(src) < BlockSize THEN [out |-> <<>>, iv |-> iv]
    ELSE LET c    == AESEncryptBlock(key, XorBlock(SubSeq(src, 1, BlockSize), iv))
             rest == CBCEncryptBlocks(key, c, SubSeq(src, BlockSize + 1, Len(src)))
         IN  [out |-> c \o rest.out, iv |-> rest.iv]

\* cipher.NewCBCDecrypter(...).CryptBlocks
RECURSIVE CBCDecryptBlocks(_, _, _)
CBCDecryptBlocks(key, iv, src) ==
    IF Len(src) < BlockSize THEN [out |-> <<>>, iv |-> iv]
    ELSE LET c    == SubSeq(src, 1, BlockSize)
             p    == XorBlock(AESDecryptBlock(key, c), iv)
             rest == CBCDecryptBlocks(key, c, SubSeq(src, BlockSize + 1, Len(src)))
         IN  [out |-> p \o rest.out, iv |-> rest.iv]

Min(a, b) == IF a < b THEN a ELSE b

(***************************************************************************)
(* AESCBCEncryptor                                                         *)
(***************************************************************************)
NewAESCBCEncryptor(key, iv) ==
    [IV |-> iv, AESKey |-> key, CopyBufferSize |-> DefaultCopyBufferSize,
     inputoverflow |-> Own(<<>>), outputoverflow |-> <<>>, cbc |-> iv, isClosed |-> FALSE]

WriterNeverClosed(e) == FALSE

\* the closed check both Write methods start with
WriterIsClosed(e) == e.isClosed

PrependDropsOverflow(e, buf, p) == [s |-> p, buf |-> buf]

\* p = append(e.inputoverflow, p...) when there is input overflow
PrependOverflow(e, buf, p) ==
    IF SLen(e.inputoverflow) > 0
    THEN GoAppend(e.inputoverflow, Contents(p, buf), buf)
    ELSE [s |-> p, buf |-> buf]

EmitWithoutRetaining(e, buf, overflow, p) ==
    LET c == CBCEncryptBlocks(e.AESKey, e.cbc, Contents(p, buf))
    IN  [e   |-> [e EXCEPT !.inputoverflow = Own(<<>>),
                           !.outputoverflow = @ \o c.out,
                           !.cbc = c.iv],
         buf |-> buf, n |-> SLen(p), err |-> ErrNil]

\* encrypt p, queue the ciphertext, return len(p)
EncryptorEmit(e, buf, overflow, p) ==
    LET c == CBCEncryptBlocks(e.AESKey, e.cbc, Contents(p, buf))
    IN  [e   |-> [e EXCEPT !.inputoverflow = overflow,
                           !.outputoverflow = @ \o c.out,
                           !.cbc = c.iv],
         buf |-> buf, n |-> SLen(p), err |-> ErrNil]

EncryptorWrite(e, buf, p) ==
    IF WriterIsClosed(e) THEN [e |-> e, buf |-> buf, n |-> 0, err |-> ErrClosed]
    ELSE
    LET a  == PrependOverflow(e, buf, p)
        p1 == a.s
        L  == SLen(p1)
    IN  IF L % BlockSize # 0
        THEN LET numFullBlocks  == L \div BlockSize
                 sizeFullBlocks == numFullBlocks * BlockSize
                 extraBytes     == L - sizeFullBlocks
             IN  EncryptorEmit(e, a.buf,
                               Own(Contents(SliceFrom(p1, L - extraBytes), a.buf)),
                               SliceTo(p1, sizeFullBlocks))
        ELSE IF L - BlockSize < 0
             THEN [e |-> e, buf |-> a.buf, n |-> 0, err |-> ErrPanic]
             ELSE EncryptorEmit(e, a.buf, SliceFrom(p1, L - BlockSize),
                                SliceTo(p1, L - BlockSize))

EndWhenEmpty(e) == Len(e.outputoverflow) = 0

\* the end-of-stream check both Read methods start with
AtEndOfStream(e) == e.isClosed /\ Len(e.outputoverflow) = 0

EncryptorRead(e, plen) ==
    IF AtEndOfStream(e)
    THEN [e |-> e, n |-> 0, err |-> ErrEOF, data |-> <<>>]
    ELSE IF plen >= Len(e.outputoverflow)
         THEN [e |-> [e EXCEPT !.outputoverflow = <<>>],
               n |-> Len(e.outputoverflow), err |-> ErrNil, data |-> e.outputoverflow]
         ELSE LET n == Min(plen, Len(e.outputoverflow))
              IN  [e |-> [e EXCEPT !.outputoverflow = SubSeq(@, n + 1, Len(@))],
                   n |-> n, err |-> ErrNil, data |-> SubSeq(e.outputoverflow, 1, n)]

CloseWithoutFinalBlock(e, buf) == [e |-> [e EXCEPT !.isClosed = TRUE], buf |-> buf]

\* pad the input overflow, encrypt it, queue it, mark the stream closed
EncryptorClose(e, buf) ==
    LET p         == Pkcs7Pad(e.inputoverflow, BlockSize, buf)
        lastBlock == CBCEncryptBlocks(e.AESKey, e.cbc, Contents(p.s, p.buf))
    IN  [e   |-> [e EXCEPT !.outputoverflow = @ \o lastBlock.out,
                           !.cbc = lastBlock.iv,
                           !.isClosed = TRUE],
         buf |-> p.buf]

(***************************************************************************)
(* AESCBCDecryptor                                                         *)
(***************************************************************************)
NewAESCBCDecryptor(key, iv) ==
    [iv |-> iv, aesKey |-> key, CopyBufferSize |-> DefaultCopyBufferSize,
     inputoverflow |-> Own(<<>>), outputoverflow |-> <<>>, cbc |-> iv, isClosed |-> FALSE]

DecryptWithoutResidue(e, buf, overflow, p) ==
    LET d == CBCDecryptBlocks(e.aesKey, e.cbc, Contents(p, buf))
    IN  [e   |-> [e EXCEPT !.inputoverflow = Own(<<>>),
                           !.outputoverflow = @ \o d.out,
                           !.cbc = d.iv],
         buf |-> buf, n |-> SLen(p), err |-> ErrNil]

\* decrypt p, queue the plaintext, return len(p)
DecryptorEmit(e, buf, overflow, p) ==
    LET d == CBCDecryptBlocks(e.aesKey, e.cbc, Contents(p, buf))
    IN  [e   |-> [e EXCEPT !.inputoverflow = overflow,
                           !.outputoverflow = @ \o d.out,
                           !.cbc = d.iv],
         buf |-> buf, n |-> SLen(p), err |-> ErrNil]

DecryptorWrite(e, buf, p) ==
    IF WriterIsClosed(e) THEN [e |-> e, buf |-> buf, n |-> 0, err |-> ErrClosed]
    ELSE
    LET a  == PrependOverflow(e, buf, p)
        p1 == a.s
        L  == SLen(p1)
    IN  IF L % BlockSize # 0
        THEN LET numFullBlocks  == L \div BlockSize
                 sizeFullBlocks == numFullBlocks * BlockSize
                 extraBytes     == L - sizeFullBlocks
             IN  DecryptorEmit(e, a.buf, SliceFrom(p1, L - extraBytes),
                               SliceTo(p1, sizeFullBlocks))
        ELSE DecryptorEmit(e, a.buf,
                           IF SLen(e.inputoverflow) > 0 THEN Own(<<>>) ELSE e.inputoverflow,
                           p1)

RetainNothing(e) == 0

\* bytesToRetain: 16 while open, 0 once closed
BytesRetained(e) == IF e.isClosed THEN 0 ELSE BytesToRetain

DecryptorRead(e, plen) ==
    IF AtEndOfStream(e)
    THEN [e |-> e, n |-> 0, err |-> ErrEOF, data |-> <<>>]
    ELSE
    LET bytesToRetain == BytesRetained(e)
        avail         == Len(e.outputoverflow) - bytesToRetain
    IN  IF plen >= avail
        THEN IF avail < 0
             THEN [e |-> e, n |-> 0, err |-> ErrPanic, data |-> <<>>]
             ELSE [e |-> [e EXCEPT !.outputoverflow = SubSeq(@, avail + 1, Len(@))],
                   n |-> avail, err |-> ErrNil,
                   data |-> SubSeq(e.outputoverflow, 1, avail)]
        ELSE LET n == Min(plen, Len(e.outputoverflow))
             IN  [e |-> [e EXCEPT !.outputoverflow = SubSeq(@, n + 1, Len(@))],
                  n |-> n, err |-> ErrNil, data |-> SubSeq(e.outputoverflow, 1, n)]

CloseNeedsOneByte(e) == Len(e.outputoverflow) < 1

\* the length check Close starts with
CloseLacksData(e) == Len(e.outputoverflow) < BlockSize

DecryptorClose(e) ==
    IF CloseLacksData(e) THEN [e |-> e, err |-> ErrInsufficient]
    ELSE LET p == Pkcs7Unpad(e.outputoverflow)
         IN  IF p.err # ErrNil THEN [e |-> e, err |-> p.err]
             ELSE [e |-> [e EXCEPT !.outputoverflow = p.data, !.isClosed = TRUE],
                   err |-> ErrNil]

(***************************************************************************)
(* The stream harness: one encryptor and one decryptor built with the same *)
(* key and IV.  The caller writes the payload to the encryptor in chunks   *)
(* (slices of its payload array), reads ciphertext into ct and closes the  *)
(* encryptor once the payload is written; when the encryptor has been      *)
(* closed once and drained, the caller writes ct to the decryptor in       *)
(* chunks, reads plaintext into pt and closes it at any time.  The two     *)
(* streams share nothing but ct, so running them one after the other       *)
(* loses no behaviour of either.                                           *)
(***************************************************************************)
MaxPayloadLen == 33

MaxReadBuf == 64

MaxCloses == 2

PayloadLens == {0, 1, 15, 16, 17, MaxPayloadLen - 1, MaxPayloadLen}

\* payload contents: a run of distinct bytes, and a run of 0x01 bytes
\* (plaintext that itself ends like PKCS7 padding)
Pattern(L, k) == [i \in 1..L |-> IF k = 0 THEN (3 * i + 64) % 256 ELSE 1]

Payloads == {Pattern(L, k) : L \in PayloadLens, k \in {0, 1}}

IVs == {[i \in 1..BlockSize |-> (5 * i + 200) % 256]}

ChunkSizes == {0, 1, 16, 17}

ClosedWriteSizes == {0, 1, 16}

ReadSizes == {0, 7, 16, MaxReadBuf}

NoRet == [op |-> "none", arg |-> 0, n |-> 0, err |-> ErrNil]

NoHist == [encWrites |-> 0, encCloses |-> 0, decCloses |-> 0, shortReads |-> 0,
           ioFailures |-> 0]

NoPad == [data |-> <<>>, err |-> ErrNil]

PadIdle == padStage = "idle" /\ padIn = <<>> /\ padBuf = <<>> /\ padOut = NoPad

Init ==
    /\ plain \in Payloads
    /\ \E iv \in IVs :
          /\ enc = NewAESCBCEncryptor(AESKey, iv)
          /\ dec = NewAESCBCDecryptor(AESKey, iv)
    /\ encBuf = plain
    /\ decBuf = <<>>
    /\ written = 0
    /\ ct = <<>>
    /\ fed = 0
    /\ pt = <<>>
    /\ ret = NoRet
    /\ hist = NoHist
    /\ pc = "enc"
    /\ PadIdle

\* enc.Write(plain[written : written+k]) on the open encryptor
EncWrite ==
    /\ pc = "enc" /\ ~enc.isClosed
    /\ \E k \in ChunkSizes \cup {Len(plain) - written} :
          /\ k <= Len(plain) - written
          /\ LET r == EncryptorWrite(enc, encBuf, View(written, k, Len(plain) - written))
             IN  /\ enc' = r.e
                 /\ encBuf' = r.buf
                 /\ written' = IF r.err = ErrNil THEN written + k ELSE written
                 /\ ret' = [op |-> "EncWrite", arg |-> k, n |-> r.n, err |-> r.err]
                 /\ hist' = IF r.err = ErrNil
                            THEN [hist EXCEPT !.encWrites = Min(2, @ + 1)]
                            ELSE hist
    /\ UNCHANGED <<plain, dec, decBuf, ct, fed, pt, pc, padVars>>

\* enc.Write(plain[:k]) on the closed encryptor
EncWriteClosed ==
    /\ pc = "enc" /\ enc.isClosed
    /\ \E k \in ClosedWriteSizes :
          /\ k <= Len(plain)
          /\ LET r == EncryptorWrite(enc, encBuf, View(0, k, Len(plain)))
             IN  /\ enc' = r.e
                 /\ encBuf' = r.buf
                 /\ ret' = [op |-> "EncWriteClosed", arg |-> k, n |-> r.n, err |-> r.err]
    /\ UNCHANGED <<plain, dec, decBuf, written, ct, fed, pt, hist, pc, padVars>>

\* enc.Read(buf) with a scratch buffer of m bytes, appended to ct
EncRead ==
    /\ pc = "enc"
    /\ \E m \in ReadSizes :
          LET r == EncryptorRead(enc, m)
          IN  /\ enc' = r.e
              /\ ct' = ct \o r.data
              /\ decBuf' = ct \o r.data
              /\ ret' = [op |-> "EncRead", arg |-> m, n |-> r.n, err |-> r.err]
    /\ UNCHANGED <<plain, dec, encBuf, written, fed, pt, hist, pc, padVars>>

\* enc.Close() once the payload is written; possibly a second time
EncClose ==
    /\ pc = "enc" /\ written = Len(plain)
    /\ hist.encCloses < MaxCloses
    /\ LET r == EncryptorClose(enc, encBuf)
       IN  /\ enc' = r.e
           /\ encBuf' = r.buf
    /\ hist' = [hist EXCEPT !.encCloses = @ + 1]
    /\ ret' = [op |-> "EncClose", arg |-> 0, n |-> 0, err |-> ErrNil]
    /\ UNCHANGED <<plain, dec, decBuf, written, ct, fed, pt, pc, padVars>>

EncDone == hist.encCloses = 1 /\ enc.isClosed /\ Len(enc.outputoverflow) = 0

DecPhase == pc = "dec" \/ (pc = "enc" /\ EncDone)

\* dec.Write(ct[fed : fed+k]) on the open decryptor
DecWrite ==
    /\ DecPhase /\ ~dec.isClosed
    /\ \E k \in ChunkSizes \cup {Len(ct) - fed} :
          /\ k <= Len(ct) - fed
          /\ LET r == DecryptorWrite(dec, decBuf, View(fed, k, k))
             IN  /\ dec' = r.e
                 /\ decBuf' = r.buf
                 /\ fed' = IF r.err = ErrNil THEN fed + k ELSE fed
                 /\ ret' = [op |-> "DecWrite", arg |-> k, n |-> r.n, err |-> r.err]
    /\ pc' = "dec"
    /\ UNCHANGED <<plain, enc, encBuf, written, ct, pt, hist, padVars>>

\* dec.Write(ct[:k]) on the closed decryptor
DecWriteClosed ==
    /\ DecPhase /\ dec.isClosed
    /\ \E k \in ClosedWriteSizes :
          /\ k <= Len(ct)
          /\ LET r == DecryptorWrite(dec, decBuf, View(0, k, k))
             IN  /\ dec' = r.e
                 /\ decBuf' = r.buf
                 /\ ret' = [op |-> "DecWriteClosed", arg |-> k, n |-> r.n, err |-> r.err]
    /\ pc' = "dec"
    /\ UNCHANGED <<plain, enc, encBuf, written, ct, fed, pt, hist, padVars>>

\* dec.Read(buf) with a scratch buffer of m bytes, appended to pt
DecRead ==
    /\ DecPhase
    /\ \E m \in ReadSizes :
          LET r == DecryptorRead(dec, m)
          IN  /\ dec' = r.e
              /\ pt' = pt \o r.data
              /\ ret' = [op |-> "DecRead", arg |-> m, n |-> r.n, err |-> r.err]
    /\ pc' = "dec"
    /\ UNCHANGED <<plain, enc, encBuf, decBuf, written, ct, fed, hist, padVars>>

\* dec.Close(), at any time; a further Close after one that succeeded
DecClose ==
    /\ DecPhase
    /\ hist.decCloses < MaxCloses
    /\ LET r == DecryptorClose(dec)
       IN  /\ dec' = r.e
           /\ hist' = IF r.err = ErrNil THEN [hist EXCEPT !.decCloses = @ + 1] ELSE hist
           /\ ret' = [op |-> "DecClose", arg |-> 0, n |-> 0, err |-> r.err]
    /\ pc' = "dec"
    /\ UNCHANGED <<plain, enc, encBuf, decBuf, written, ct, fed, pt, padVars>>

Next ==
    \/ EncWrite
    \/ EncWriteClosed
    \/ EncRead
    \/ EncClose
    \/ DecWrite
    \/ DecWriteClosed
    \/ DecRead
    \/ DecClose

Spec == Init /\ [][Next]_vars

(***************************************************************************)
(* Properties of the stream harness                                        *)
(***************************************************************************)
\* every byte the encryptor has produced so far, read or still queued
Produced == ct \o enc.outputoverflow

\* the plaintext of the whole blocks written to the decryptor so far
DecryptedSoFar ==
    CBCDecryptBlocks(dec.aesKey, dec.iv, SubSeq(ct, 1, (fed \div BlockSize) * BlockSize)).out

\* the ciphertext of one Write of the whole payload followed by Close
SingleWriteCiphertext(P, iv) ==
    LET w == EncryptorWrite(NewAESCBCEncryptor(AESKey, iv), P, View(0, Len(P), Len(P)))
        c == EncryptorClose(w.e, w.buf)
    IN  c.e.outputoverflow

RoundTripDone ==
    /\ written = Len(plain) /\ EncDone
    /\ fed = Len(ct)
    /\ hist.decCloses = 1 /\ dec.isClosed /\ Len(dec.outputoverflow) = 0

\* C1: writing the payload P to the encryptor in one Write succeeds for every
\* P (length 0 included), and after Close and a full drain, writing the
\* ciphertext to the decryptor, Close and a full drain return exactly P.
C1_RoundTrip ==
    /\ (ret.op = "EncWrite" /\ ret.arg = Len(plain) => ret.err = ErrNil)
    /\ (RoundTripDone => pt = plain)

\* C3: whatever the chunks the payload was written in, the ciphertext
\* produced once the encryptor is closed equals the ciphertext of a single
\* Write of the payload followed by Close.
C3_StreamingEquivalence ==
    hist.encCloses = 1 => Produced = SingleWriteCiphertext(plain, enc.IV)

\* C3 witness: a payload of more than two blocks, written in several Writes, closed
C3_Witness ==
    /\ hist.encCloses = 1 /\ hist.encWrites = 2
    /\ Len(plain) = MaxPayloadLen
    /\ Len(Produced) = BlockSize * ((MaxPayloadLen \div BlockSize) + 1)

\* C4: Close on a stream that is already closed leaves OutputOverflow
\* unchanged, on the encryptor and on the decryptor.
C4_SecondCloseGuarded ==
    [][/\ (ret'.op = "EncClose" /\ enc.isClosed
              => enc'.outputoverflow = enc.outputoverflow)
       /\ (ret'.op = "DecClose" /\ dec.isClosed
              => dec'.outputoverflow = dec.outputoverflow)]_vars

\* C5: a Write on a closed encryptor or decryptor returns 0 and the
\* closed-stream error, and changes nothing of the stream.
C5_ClosedWriteGuard ==
    [][/\ (ret'.op = "EncWriteClosed"
              => ret'.n = 0 /\ ret'.err = ErrClosed /\ enc' = enc /\ encBuf' = encBuf)
       /\ (ret'.op = "DecWriteClosed"
              => ret'.n = 0 /\ ret'.err = ErrClosed /\ dec' = dec /\ decBuf' = decBuf)]_vars

\* C5 witness: a non-empty Write was refused by a closed decryptor that still
\* holds plaintext
C5_Witness ==
    /\ ret.op = "DecWriteClosed" /\ ret.arg > 0 /\ ret.err = ErrClosed
    /\ dec.isClosed /\ Len(dec.outputoverflow) > 0

\* C6: Close on a decryptor with fewer than 16 bytes of decrypted output
\* buffered fails with the insufficient-data error (and changes nothing).
C6_TruncatedGuard ==
    [][ret'.op = "DecClose" /\ Len(dec.outputoverflow) < BlockSize
          => ret'.err = ErrInsufficient /\ dec' = dec]_vars

\* C6 witness: Close refused after less than a block of ciphertext was written
C6_Witness ==
    /\ ret.op = "DecClose" /\ ret.err = ErrInsufficient
    /\ fed > 0 /\ fed < BlockSize /\ ~dec.isClosed

\* C9: while the decryptor is open, what Read has returned is a prefix of the
\* plaintext decrypted so far that stops short of its last 16 bytes; after
\* Close and a full drain Read has returned it all, with the padding removed.
C9_RetainedTail ==
    /\ (~dec.isClosed =>
          /\ Len(pt) <= Len(DecryptedSoFar)
          /\ pt = SubSeq(DecryptedSoFar, 1, Len(pt))
          /\ (Len(pt) > 0 => Len(pt) + BytesToRetain <= Len(DecryptedSoFar)))
    /\ (hist.decCloses = 1 /\ Len(dec.outputoverflow) = 0 =>
          pt = Pkcs7Unpad(DecryptedSoFar).data)

\* C9 witness: an open decryptor has returned all but the last 16 bytes
C9_Witness ==
    /\ ~dec.isClosed /\ Len(pt) > 0
    /\ Len(pt) + BytesToRetain = Len(DecryptedSoFar)
    /\ ret.op = "DecRead"

\* C10: Read on an open stream with nothing readable (an encryptor with no
\* output queued, a decryptor holding at most the 16 withheld bytes) returns
\* 0 and no error, and changes nothing of the stream.
C10_NonBlockingRead ==
    [][/\ (ret'.op = "EncRead" /\ ~enc.isClosed /\ Len(enc.outputoverflow) = 0
              => ret'.n = 0 /\ ret'.err = ErrNil /\ enc' = enc)
       /\ (ret'.op = "DecRead" /\ ~dec.isClosed
                               /\ Len(dec.outputoverflow) <= BytesToRetain
              => ret'.n = 0 /\ ret'.err = ErrNil /\ dec' = dec)]_vars

\* C11: a Read returns end-of-stream exactly when the stream is closed and
\* its OutputOverflow is empty (never while open, never while bytes remain);
\* on a closed stream that still holds bytes, a Read with a non-empty buffer
\* returns the next min(buffer, remaining) of them, so repeated Reads return
\* them all and then end-of-stream.
C11_EndOfStream ==
    [][/\ (ret'.op = "EncRead" =>
              /\ (ret'.err = ErrEOF <=> enc.isClosed /\ Len(enc.outputoverflow) = 0)
              /\ (ret'.err = ErrEOF => ret'.n = 0 /\ ct' = ct)
              /\ (enc.isClosed /\ Len(enc.outputoverflow) > 0 /\ ret'.arg > 0 =>
                    /\ ret'.n = Min(ret'.arg, Len(enc.outputoverflow))
                    /\ ct' = ct \o SubSeq(enc.outputoverflow, 1, ret'.n)
                    /\ enc'.outputoverflow =
                          SubSeq(enc.outputoverflow, ret'.n + 1, Len(enc.outputoverflow))))
       /\ (ret'.op = "DecRead" =>
              /\ (ret'.err = ErrEOF <=> dec.isClosed /\ Len(dec.outputoverflow) = 0)
              /\ (ret'.err = ErrEOF => ret'.n = 0 /\ pt' = pt)
              /\ (dec.isClosed /\ Len(dec.outputoverflow) > 0 /\ ret'.arg > 0 =>
                    /\ ret'.n = Min(ret'.arg, Len(dec.outputoverflow))
                    /\ pt' = pt \o SubSeq(dec.outputoverflow, 1, ret'.n)
                    /\ dec'.outputoverflow =
                          SubSeq(dec.outputoverflow, ret'.n + 1, Len(dec.outputoverflow))))]_vars

\* C11 witness: the closed decryptor, drained of a plaintext longer than one
\* read buffer, has just signalled end-of-stream
C11_Witness ==
    /\ ret.op = "DecRead" /\ ret.err = ErrEOF
    /\ dec.isClosed /\ hist.decCloses = 1
    /\ enc.isClosed /\ Len(enc.outputoverflow) = 0
    /\ Len(pt) = MaxPayloadLen

\* C12: once a payload of length L, written in any chunks, has been closed
\* once, the encryptor has produced 16 * (L div 16 + 1) bytes of ciphertext
\* in all (read before or after Close, or still queued): a positive multiple
\* of 16.
C12_CiphertextLength ==
    hist.encCloses = 1 =>
        /\ Len(Produced) = BlockSize * ((Len(plain) \div BlockSize) + 1)
        /\ Len(Produced) > 0
        /\ Len(Produced) % BlockSize = 0

\* C12 witness: a block-aligned payload of two blocks, written in several
\* Writes, part of its ciphertext read before Close and the rest queued
C12_Witness ==
    /\ hist.encCloses = 1 /\ hist.encWrites = 2
    /\ Len(plain) = 2 * BlockSize
    /\ Len(ct) = BlockSize
    /\ Len(enc.outputoverflow) = 2 * BlockSize

\* C13: a Write on an open encryptor or decryptor that returns no error
\* returns the length of its argument as its count.
C13_WriteCount ==
    ret.op \in {"EncWrite", "DecWrite"} /\ ret.err = ErrNil => ret.n = ret.arg

Retained(n) == IF n % BlockSize = 0 THEN BlockSize ELSE n % BlockSize

C17_DecryptorResidue ==
    ~dec.isClosed =>
        /\ SLen(dec.inputoverflow) = fed % BlockSize
        /\ SLen(dec.inputoverflow) < BlockSize
        /\ Contents(dec.inputoverflow, decBuf) = SubSeq(ct, fed - (fed % BlockSize) + 1, fed)
        /\ pt \o dec.outputoverflow = DecryptedSoFar

\* C17 witness: 33 bytes of ciphertext written in several Writes, the last
\* one just returned: one byte is held back and two blocks are decrypted
C17_Witness ==
    /\ ret.op = "DecWrite" /\ ret.err = ErrNil /\ ret.arg = 1
    /\ ~dec.isClosed
    /\ fed = 2 * BlockSize + 1
    /\ SLen(dec.inputoverflow) = 1
    /\ Len(pt) + Len(dec.outputoverflow) = 2 * BlockSize

\* the bytes a Read can return: all of OutputOverflow, less the 16 bytes an
\* open decryptor withholds
EncReadable == Len(enc.outputoverflow)

DecReadable ==
    IF dec.isClosed THEN Len(dec.outputoverflow)
    ELSE IF Len(dec.outputoverflow) > BytesToRetain
         THEN Len(dec.outputoverflow) - BytesToRetain
         ELSE 0

\* C19: in any interleaving of Write, Read and Close, every Read returns the
\* first min(buffer length, readable bytes) bytes of OutputOverflow and
\* removes exactly those, so what the Reads return, in order, is a prefix of
\* the bytes produced, each delivered once, and the whole of them once the
\* closed stream is drained.
C19_FifoDrain ==
    [][/\ (ret'.op = "EncRead" =>
              /\ ret'.err \in {ErrNil, ErrEOF}
              /\ ret'.n = Min(ret'.arg, EncReadable)
              /\ ct' = ct \o SubSeq(enc.outputoverflow, 1, ret'.n)
              /\ enc'.outputoverflow =
                    SubSeq(enc.outputoverflow, ret'.n + 1, Len(enc.outputoverflow)))
       /\ (ret'.op = "DecRead" =>
              /\ ret'.err \in {ErrNil, ErrEOF}
              /\ ret'.n = Min(ret'.arg, DecReadable)
              /\ pt' = pt \o SubSeq(dec.outputoverflow, 1, ret'.n)
              /\ dec'.outputoverflow =
                    SubSeq(dec.outputoverflow, ret'.n + 1, Len(dec.outputoverflow)))]_vars

\* C20: a Write of zero bytes on an open encryptor or decryptor, in any
\* state, returns 0 and no error and leaves the bytes of InputOverflow, the
\* bytes of OutputOverflow and the open state as they were.
C20_EmptyWriteHarmless ==
    [][/\ (ret'.op = "EncWrite" /\ ret'.arg = 0 =>
              /\ ret'.n = 0 /\ ret'.err = ErrNil
              /\ Contents(enc'.inputoverflow, encBuf') = Contents(enc.inputoverflow, encBuf)
              /\ enc'.outputoverflow = enc.outputoverflow
              /\ ~enc'.isClosed)
       /\ (ret'.op = "DecWrite" /\ ret'.arg = 0 =>
              /\ ret'.n = 0 /\ ret'.err = ErrNil
              /\ Contents(dec'.inputoverflow, decBuf') = Contents(dec.inputoverflow, decBuf)
              /\ dec'.outputoverflow = dec.outputoverflow
              /\ ~dec'.isClosed)]_vars

(***************************************************************************)
(* The padding codec harness: pad a buffer, possibly overwrite its final   *)
(* byte, unpad it.                                                         *)
(***************************************************************************)
\* buffer contents: a run of distinct bytes, of 0x01 bytes, of 0x11 bytes
PadPattern(L, k) ==
    [i \in 1..L |-> IF k = 0 THEN (3 * i + 64) % 256 ELSE IF k = 1 THEN 1 ELSE 17]

PadInputs == {PadPattern(L, k) : L \in 0..MaxPadLen, k \in {0, 1, 2}}

TamperValues == {0, 1, 2, 15, 16, 17, 255}

StreamIdle ==
    /\ plain = <<>>
    /\ \E iv \in IVs :
          /\ enc = NewAESCBCEncryptor(AESKey, iv)
          /\ dec = NewAESCBCDecryptor(AESKey, iv)
    /\ encBuf = <<>>
    /\ decBuf = <<>>
    /\ written = 0
    /\ ct = <<>>
    /\ fed = 0
    /\ pt = <<>>
    /\ ret = NoRet
    /\ hist = NoHist
    /\ pc = "idle"

PadInit ==
    /\ StreamIdle
    /\ padStage = "in"
    /\ padIn \in PadInputs
    /\ padBuf = <<>>
    /\ padOut = NoPad

\* padBuf = Pkcs7Pad(padIn, 16)
PadStep ==
    /\ padStage = "in"
    /\ padBuf' = Contents(Pkcs7Pad(Own(padIn), BlockSize, <<>>).s, <<>>)
    /\ padStage' = "padded"
    /\ UNCHANGED <<padIn, padOut, streamVars>>

\* the final byte of the padded buffer is replaced by another value
TamperStep ==
    /\ padStage = "padded"
    /\ \E v \in TamperValues :
          /\ v # padBuf[Len(padBuf)]
          /\ padBuf' = [padBuf EXCEPT ![Len(padBuf)] = v]
    /\ padStage' = "tampered"
    /\ UNCHANGED <<padIn, padOut, streamVars>>

\* padOut = Pkcs7Unpad(padBuf)
UnpadStep ==
    /\ padStage \in {"padded", "tampered"}
    /\ padOut' = Pkcs7Unpad(padBuf)
    /\ padStage' = IF padStage = "padded" THEN "unpadded" ELSE "tamperedUnpadded"
    /\ UNCHANGED <<padIn, padBuf, streamVars>>

PadNext ==
    \/ PadStep
    \/ TamperStep
    \/ UnpadStep

SpecPad == PadInit /\ [][PadNext]_vars

\* the final byte announces padding that is really there
PaddingMatches(buf) ==
    LET v == buf[Len(buf)]
    IN  /\ v <= Len(buf)
        /\ \A i \in (Len(buf) - v + 1)..Len(buf) : buf[i] = v

\* C7: when the final byte of a correctly padded buffer is replaced by a
\* value outside 1..16, or by a value that does not match the padding bytes
\* it announces, Pkcs7Unpad fails with the padding error.
C7_TamperDetected ==
    padStage = "tamperedUnpadded"
        /\ (padBuf[Len(padBuf)] \notin 1..BlockSize \/ ~PaddingMatches(padBuf))
    => padOut.err = ErrPadding

\* C8: Pkcs7Pad appends n = 16 - (len mod 16) bytes of value n, 1 <= n <= 16,
\* and Pkcs7Unpad of the padded buffer returns the original data, no error.
C8_PadUnpadInverse ==
    /\ padStage \in {"padded", "unpadded"} =>
          LET n == BlockSize - (Len(padIn) % BlockSize)
          IN  /\ n \in 1..BlockSize
              /\ Len(padBuf) = Len(padIn) + n
              /\ SubSeq(padBuf, 1, Len(padIn)) = padIn
              /\ \A i \in (Len(padIn) + 1)..Len(padBuf) : padBuf[i] = n
    /\ padStage = "unpadded" => padOut.err = ErrNil /\ padOut.data = padIn

\* C8 witness: a block-aligned input got a full block of padding and came back
C8_Witness ==
    /\ padStage = "unpadded"
    /\ Len(padIn) = 2 * BlockSize
    /\ Len(padBuf) = 3 * BlockSize
    /\ padOut.data = padIn

(***************************************************************************)
(* The Copy harness: enc.Copy(sink, source) with the payload as the source *)
(* and ct as the sink, then dec.Copy(sink, source) with ct as the source   *)
(* and pt as the sink.  Each step is one pass of Copy's loop; the last     *)
(* pass includes Close and the final drain.  A source may return fewer     *)
(* bytes than the buffer holds, and returns (0, EOF) at its end.           *)
(***************************************************************************)
MaxCopyBuf == 33

MaxShortReads == 1

CopyBufferSizes == {BlockSize, 2 * BlockSize, MaxCopyBuf}

ShortReadSizes == {1, BlockSize}

Zeros(n) == [i \in 1..n |-> 0]

\* the counts src.Read(buf) may return with remaining bytes left in the source
ReaderCounts(buflen, remaining) ==
    IF remaining = 0 THEN {0}
    ELSE {Min(buflen, remaining)}
         \cup {k \in ShortReadSizes : k < Min(buflen, remaining)
                                       /\ hist.shortReads < MaxShortReads}

\* the history after the source returned n bytes
AfterRead(n, buflen, remaining) ==
    IF n < Min(buflen, remaining) THEN [hist EXCEPT !.shortReads = @ + 1] ELSE hist

MaxIOFailures == 1

\* how the calls a step makes on the source and the sink go: all succeed, or
\* the call named fails with an error other than EOF, moving no byte
IOOutcomes(calls) ==
    {"none"} \cup (IF hist.ioFailures < MaxIOFailures THEN calls ELSE {})

\* the history after a step whose calls went as f says
AfterIO(h, f) == IF f = "none" THEN h ELSE [h EXCEPT !.ioFailures = @ + 1]

\* the IV handed to NewAESCBCDecryptor: the encryptor's, or another one
ConstructorIVs == IVs \cup {Zeros(BlockSize)}

CopyInit ==
    /\ plain \in Payloads
    /\ \E iv \in IVs, civ \in ConstructorIVs, b \in CopyBufferSizes :
          /\ enc = [NewAESCBCEncryptor(AESKey, iv) EXCEPT !.CopyBufferSize = b]
          /\ dec = [NewAESCBCDecryptor(AESKey, civ) EXCEPT !.CopyBufferSize = b]
    /\ encBuf = <<>>
    /\ decBuf = <<>>
    /\ written = 0
    /\ ct = <<>>
    /\ fed = 0
    /\ pt = <<>>
    /\ ret = NoRet
    /\ hist = NoHist
    /\ pc = "encCopy"
    /\ PadIdle

\* the loop that reads what is left after Close and writes it to the sink
RECURSIVE EncryptorDrain(_, _, _, _)
EncryptorDrain(e, buf, sink, count) ==
    LET r == EncryptorRead(e, Len(buf))
    IN  IF r.n = 0 THEN [e |-> r.e, buf |-> buf, sink |-> sink, count |-> count]
        ELSE EncryptorDrain(r.e, WriteAt(buf, 0, r.data), sink \o r.data, count + r.n)

RECURSIVE DecryptorDrain(_, _, _, _)
DecryptorDrain(e, buf, sink, count) ==
    LET r == DecryptorRead(e, Len(buf))
    IN  IF r.n = 0
        THEN [e |-> r.e, buf |-> buf, sink |-> sink, count |-> count, err |-> r.err]
        ELSE DecryptorDrain(r.e, WriteAt(buf, 0, r.data), sink \o r.data, count + r.n)

\* AESCBCEncryptor.Copy up to its loop: allocate inputBuf, write the IV
EncCopyStart ==
    /\ pc = "encCopy"
    /\ encBuf' = Zeros(enc.CopyBufferSize)
    /\ \E f \in IOOutcomes({"sink"}) :
          /\ ct' = IF f = "none" THEN ct \o enc.IV ELSE ct
          /\ hist' = AfterIO(hist, f)
    /\ ret' = [op |-> "EncCopy", arg |-> 0, n |-> Len(enc.IV), err |-> ErrNil]
    /\ pc' = "encLoop"
    /\ UNCHANGED <<plain, enc, dec, decBuf, written, fed, pt, padVars>>

\* one pass of AESCBCEncryptor.Copy's loop
EncCopyPass ==
    /\ pc = "encLoop"
    /\ \E n \in ReaderCounts(Len(encBuf), Len(plain) - written),
          f \in IOOutcomes({"source", "sink", "drain"}) :
          LET shouldClose == (Len(plain) - written = 0)
              buf1 == WriteAt(encBuf, 0, SubSeq(plain, written + 1, written + n))
              w    == EncryptorWrite(enc, buf1, View(0, n, Len(encBuf)))
              r    == EncryptorRead(w.e, Len(encBuf))
              buf2 == WriteAt(w.buf, 0, r.data)
              sink == ct \o SubSeq(buf2, 1, r.n)
              c    == EncryptorClose(r.e, buf2)
              r2   == EncryptorRead(c.e, Len(encBuf))
              d    == EncryptorDrain(c.e, c.buf, sink, ret.n + r.n)
          IN  IF f = "source"
              THEN /\ hist' = AfterIO(hist, f)
                   /\ ret' = [ret EXCEPT !.err = ErrIO]
                   /\ pc' = "failed"
                   /\ UNCHANGED <<enc, encBuf, ct, written>>
              ELSE
              /\ f # "none" => w.err # ErrPanic
              /\ f = "drain" => shouldClose
              /\ written' = written + n
              /\ hist' = AfterIO(AfterRead(n, Len(encBuf), Len(plain) - written), f)
              /\ IF w.err = ErrPanic
                 THEN /\ enc' = w.e /\ encBuf' = w.buf /\ ct' = ct
                      /\ ret' = [ret EXCEPT !.err = ErrPanic]
                      /\ pc' = "panic"
                 ELSE IF f = "sink"
                 THEN /\ enc' = r.e /\ encBuf' = buf2 /\ ct' = ct
                      /\ ret' = [ret EXCEPT !.err = ErrIO]
                      /\ pc' = "failed"
                 ELSE IF f = "drain"
                 THEN /\ enc' = r2.e /\ encBuf' = WriteAt(c.buf, 0, r2.data) /\ ct' = sink
                      /\ ret' = [ret EXCEPT !.n = @ + r.n, !.err = ErrIO]
                      /\ pc' = "failed"
                 ELSE IF shouldClose
                 THEN /\ enc' = d.e /\ encBuf' = d.buf /\ ct' = d.sink
                      /\ ret' = [ret EXCEPT !.n = d.count]
                      /\ pc' = "decCopy"
                 ELSE /\ enc' = r.e /\ encBuf' = buf2 /\ ct' = sink
                      /\ ret' = [ret EXCEPT !.n = @ + r.n]
                      /\ pc' = "encLoop"
    /\ UNCHANGED <<plain, dec, decBuf, fed, pt, padVars>>

\* AESCBCDecryptor.Copy up to its loop: allocate inputBuf, read the IV
DecCopyStart ==
    /\ pc = "decCopy"
    /\ decBuf' = Zeros(dec.CopyBufferSize)
    /\ \E n \in ReaderCounts(Len(dec.iv), Len(ct) - fed), f \in IOOutcomes({"source"}) :
          IF f = "source"
          THEN /\ hist' = AfterIO(hist, f)
               /\ UNCHANGED <<dec, fed>>
          ELSE /\ dec' = [dec EXCEPT !.iv = WriteAt(@, 0, SubSeq(ct, fed + 1, fed + n))]
               /\ fed' = fed + n
               /\ hist' = AfterRead(n, Len(dec.iv), Len(ct) - fed)
    /\ ret' = [op |-> "DecCopy", arg |-> 0, n |-> Len(dec.iv), err |-> ErrNil]
    /\ pc' = "decLoop"
    /\ UNCHANGED <<plain, enc, encBuf, written, ct, pt, padVars>>

\* one pass of AESCBCDecryptor.Copy's loop
DecCopyPass ==
    /\ pc = "decLoop"
    /\ \E n \in ReaderCounts(Len(decBuf), Len(ct) - fed),
          f \in IOOutcomes({"source", "sink", "drain"}) :
          LET shouldClose == (Len(ct) - fed = 0)
              buf1 == WriteAt(decBuf, 0, SubSeq(ct, fed + 1, fed + n))
              w    == DecryptorWrite(dec, buf1, View(0, n, Len(decBuf)))
              r    == DecryptorRead(w.e, Len(decBuf))
              buf2 == WriteAt(w.buf, 0, r.data)
              sink == pt \o SubSeq(buf2, 1, n)
              c    == DecryptorClose(r.e)
              r2   == DecryptorRead(c.e, Len(decBuf))
              d    == DecryptorDrain(c.e, buf2, sink, ret.n + n)
          IN  IF f = "source"
              THEN /\ hist' = AfterIO(hist, f)
                   /\ ret' = [ret EXCEPT !.err = ErrIO]
                   /\ pc' = "failed"
                   /\ UNCHANGED <<dec, decBuf, pt, fed>>
              ELSE
              /\ f # "none" => r.err # ErrPanic
              /\ f = "drain" => shouldClose /\ r2.n > 0
              /\ fed' = fed + n
              /\ hist' = AfterIO(AfterRead(n, Len(decBuf), Len(ct) - fed), f)
              /\ IF r.err = ErrPanic
                 THEN /\ dec' = r.e /\ decBuf' = w.buf /\ pt' = pt
                      /\ ret' = [ret EXCEPT !.err = ErrPanic]
                      /\ pc' = "panic"
                 ELSE IF f = "sink"
                 THEN /\ dec' = r.e /\ decBuf' = buf2 /\ pt' = pt
                      /\ ret' = [ret EXCEPT !.err = ErrIO]
                      /\ pc' = "failed"
                 ELSE IF f = "drain"
                 THEN /\ dec' = r2.e /\ decBuf' = WriteAt(buf2, 0, r2.data) /\ pt' = sink
                      /\ ret' = [ret EXCEPT !.n = @ + n + r2.n, !.err = ErrIO]
                      /\ pc' = "failed"
                 ELSE IF shouldClose
                 THEN /\ dec' = d.e /\ decBuf' = d.buf /\ pt' = d.sink
                      /\ ret' = [ret EXCEPT !.n = d.count,
                                            !.err = IF d.err = ErrPanic THEN ErrPanic ELSE ErrNil]
                      /\ pc' = IF d.err = ErrPanic THEN "panic" ELSE "done"
                 ELSE /\ dec' = r.e /\ decBuf' = buf2 /\ pt' = sink
                      /\ ret' = [ret EXCEPT !.n = @ + n]
                      /\ pc' = "decLoop"
    /\ UNCHANGED <<plain, enc, encBuf, written, ct, padVars>>

CopyNext ==
    \/ EncCopyStart
    \/ EncCopyPass
    \/ DecCopyStart
    \/ DecCopyPass

SpecCopy == CopyInit /\ [][CopyNext]_vars

\* C2: for every source content, the encryptor's Copy followed by the
\* decryptor's Copy of what it wrote both run to their end and leave exactly
\* the source content in the second sink.
C2_CopyRoundTrip ==
    /\ pc # "panic"
    /\ (pc = "done" => pt = plain)

\* C14: when the decryptor's Copy has read the 16-byte IV from the source, the
\* chaining value its cipher will use for the first ciphertext block is that
\* IV, whatever IV the decryptor was constructed with.
C14_SourceIVSeedsChain ==
    [][pc = "decCopy" /\ pc' = "decLoop" /\ fed' = fed + BlockSize
          => /\ dec'.iv = SubSeq(ct, fed + 1, fed + BlockSize)
             /\ dec'.cbc = SubSeq(ct, fed + 1, fed + BlockSize)]_vars

\* C15: once a read from the source or a write to the sink has failed, the
\* Copy that made the call has stopped and returned that error; it neither
\* goes on copying nor returns success.
C15_IOFailureSurfaced ==
    hist.ioFailures > 0 => pc = "failed" /\ ret.err = ErrIO

\* C18: InputOverflow is the stream's own: when Copy refills its chunk buffer
\* from the source after a Write has returned, the bytes InputOverflow holds
\* stay what they were, and the ciphertext the encryptor's Copy has written
\* when it returns is the encryptor's IV followed by the ciphertext of the
\* source content.
C18_BufferOwnership ==
    [][/\ (pc = "encLoop" =>
              Contents(enc.inputoverflow,
                       WriteAt(encBuf, 0, SubSeq(plain, written + 1, written')))
                 = Contents(enc.inputoverflow, encBuf))
       /\ (pc = "decLoop" =>
              Contents(dec.inputoverflow,
                       WriteAt(decBuf, 0, SubSeq(ct, fed + 1, fed')))
                 = Contents(dec.inputoverflow, decBuf))
       /\ (pc = "encLoop" /\ pc' = "decCopy" /\ hist'.ioFailures = 0 =>
              ct' = enc.IV \o SingleWriteCiphertext(plain, enc.IV))]_vars

====
